---- MODULE Spec2Model ----
(***************************************************************************)
(* Model of `jira issue comment update` (internal/cmd/issue/comment/update *)
(* /update.go): one invocation of the command handler `update`, from the   *)
(* parsing of arguments and flags to the exit of the process.              *)
(*                                                                         *)
(* The handler is sequential and blocks on the terminal, the file system   *)
(* and the remote client.  Each action below is one block of the handler   *)
(* between two such blocking points; `pc` is the handler's position.       *)
(* Everything outside the process (what was typed on the command line, the *)
(* template file, standard input, the remote server, the user's answers)   *)
(* is either fixed by Init or chosen by \E where the code asks for it.     *)
(***************************************************************************)
EXTENDS Integers, Sequences, FiniteSets, TLC

VARIABLES
    args,             \* positional arguments of the invocation
    flags,            \* parsed flag values: template, noInput, internal, web
    project,          \* viper "project.key"
    stdinPiped,       \* standard input is a pipe holding data
    stdinContent,     \* what a full read of standard input returns
    file,             \* the template file: [ok, data]
    pc,               \* position in update()
    params,           \* *addParams (params and uc.params are one pointer)
    defaultBody,      \* local of setBody
    originalComment,  \* local of setBody: what GetIssueComment returned
    log,              \* external calls and prompt displays, in order
    editorDefaults,   \* Default of each editor display
    updates,          \* arguments of each UpdateIssueComment call
    printed,          \* lines written to standard output
    errors,           \* failure messages written before exiting
    nextAction,       \* answer.Action, line 91
    rejects,          \* blank answers rejected by the prompts so far
    exitCode          \* -1 while running, then the exit status

vars == <<args, flags, project, stdinPiped, stdinContent, file, pc, params,
          defaultBody, originalComment, log, editorDefaults, updates, printed,
          errors, nextAction, rejects, exitCode>>

env == <<args, flags, project, stdinPiped, stdinContent, file>>

----------------------------------------------------------------------------
(* Bounds *)

\* number of positional arguments tried (the handler reads at most three)
MaxArgs == 3
\* blank answers a user may give, over the whole run, before a valid one
MaxRejects == 1

----------------------------------------------------------------------------
(* Input domains.  Issue keys are sequences of characters so that the      *)
(* number test and the prefixing of the project key are computed.          *)

NoKey == <<>>
Tokens == {NoKey, <<"1", "2">>, <<"P", "-", "1">>}
ProjectKeys == {<<>>, <<"P">>}
CommentIds == {"", "1001"}
Bodies == {"", "fixed typo"}
Templates == {"", "-", "/t.tmpl"}
FileStates == {[ok |-> FALSE, data |-> ""], [ok |-> TRUE, data |-> ""],
               [ok |-> TRUE, data |-> "from file"]}
StdinContents == {"", "from pipe"}
KeyAnswers == {<<"7">>}
CommentIdAnswers == {"2002"}
EditedText == "edited"

ArgAt(i) == IF i = 1 THEN Tokens ELSE IF i = 2 THEN CommentIds ELSE Bodies

RECURSIVE ArgsOfLen(_)
ArgsOfLen(n) ==
    IF n = 0 THEN {<<>>}
    ELSE {Append(a, x) : a \in ArgsOfLen(n - 1), x \in ArgAt(n)}

\* every argument list of length 0..MaxArgs
ArgLists == UNION {ArgsOfLen(n) : n \in 0..MaxArgs}

NoComment == [kind |-> "none", doc |-> <<>>, text |-> <<>>]
\* a comment body is an ADF document (its text nodes) or a Jira-markup string
\* (its tokens)
Comments == {[kind |-> "adf", doc |-> <<"Hel", "lo">>, text |-> <<>>],
             [kind |-> "string", doc |-> <<>>, text |-> <<"h1.", "Hello">>]}

----------------------------------------------------------------------------
(* Collaborators outside update.go *)

ActionSubmit == "Submit"
ActionCancel == "Cancel"

Digits == {"0", "1", "2", "3", "4", "5", "6", "7", "8", "9"}

\* strconv.Atoi succeeds
IsNumber(key) ==
    LET d == IF Len(key) > 0 /\ key[1] \in {"+", "-"} THEN Tail(key) ELSE key
    IN  Len(d) > 0 /\ \A i \in 1..Len(d) : d[i] \in Digits

\* cmdutil.GetJiraIssueKey: a bare number gets the project key and a dash
GetJiraIssueKey(proj, key) ==
    IF proj = <<>> THEN key
    ELSE IF ~IsNumber(key) THEN key
    ELSE proj \o <<"-">> \o key

\* cmdutil.StdinHasData
StdinHasData == stdinPiped

\* cmdutil.ReadFile drains standard input for "-" and for "" with piped data
ReadsStdin(path) == path = "-" \/ (path = "" /\ StdinHasData)

\* cmdutil.ReadFile: [ok, data]
ReadFile(path) ==
    IF path # "-" /\ path # "" THEN file
    ELSE IF ReadsStdin(path) THEN [ok |-> TRUE, data |-> stdinContent]
    ELSE [ok |-> TRUE, data |-> ""]

RECURSIVE Concat(_)
Concat(s) == IF s = <<>> THEN "" ELSE Head(s) \o Concat(Tail(s))

RECURSIVE Join(_)
Join(s) == IF s = <<>> THEN ""
           ELSE IF Len(s) = 1 THEN Head(s)
           ELSE Head(s) \o " " \o Join(Tail(s))

\* adf.NewTranslator(node, adf.NewMarkdownTranslator()).Translate()
Translate(doc) == Concat(doc)

JiraToken(t) == CASE t = "h1." -> "#"
                  [] t = "*" -> "**"
                  [] OTHER -> t

\* md.FromJiraMD
FromJiraMD(text) == Join([i \in 1..Len(text) |-> JiraToken(text[i])])

----------------------------------------------------------------------------
(* Helpers of the handler *)

\* os.Exit(code) after msg was written
Exit(code, msg) ==
    /\ pc' = "exit"
    /\ exitCode' = code
    /\ errors' = IF msg = "" THEN errors ELSE Append(errors, msg)

MsgMandatory == "ISSUE-KEY & COMMENT-ID are mandatory when using a non-interactive mode"
MsgAborted == "Action aborted"

\* the detector without the "-" sentinel
isNonInteractive_StdinOnly == StdinHasData

\* line 289
isNonInteractive == StdinHasData \/ params.template = "-"

\* the guard asking for both fields to be missing
isMandatoryParamsMissing_Both == params.issueKey = NoKey /\ params.commentId = ""

\* line 293
isMandatoryParamsMissing == params.issueKey = NoKey \/ params.commentId = ""

TypeOK ==
    /\ args \in ArgLists
    /\ flags \in [template : Templates, noInput : BOOLEAN,
                  internal : BOOLEAN, web : BOOLEAN]
    /\ project \in ProjectKeys
    /\ stdinPiped \in BOOLEAN
    /\ stdinContent \in StdinContents
    /\ file \in FileStates
    /\ pc \in {"parse", "detect", "setIssueKey", "setCommentId", "setBody",
               "fetch", "editor", "confirm", "commit", "report", "web", "exit"}
    /\ params.noInput \in BOOLEAN
    /\ params.internal \in BOOLEAN
    /\ params.template \in Templates
    /\ rejects \in 0..MaxRejects
    /\ exitCode \in {-1, 0, 1}

Init ==
    /\ args \in ArgLists
    /\ flags \in [template : Templates, noInput : BOOLEAN,
                  internal : BOOLEAN, web : BOOLEAN]
    /\ project \in ProjectKeys
    /\ stdinPiped \in BOOLEAN
    /\ stdinContent \in StdinContents
    /\ file \in FileStates
    /\ pc = "parse"
    /\ params = [issueKey |-> NoKey, commentId |-> "", body |-> "",
                 template |-> "", noInput |-> FALSE, internal |-> FALSE]
    /\ defaultBody = ""
    /\ originalComment = NoComment
    /\ log = <<>>
    /\ editorDefaults = <<>>
    /\ updates = <<>>
    /\ printed = <<>>
    /\ errors = <<>>
    /\ nextAction = ""
    /\ rejects = 0
    /\ exitCode = -1

----------------------------------------------------------------------------
(* update(), lines 67-117, block by block *)

\* parseArgsAndFlags: positional arguments and flags into *addParams; an
\* error of a flag getter exits
parseArgsAndFlags ==
    /\ pc = "parse"
    /\ \E flagErr \in BOOLEAN :
        IF flagErr
        THEN /\ Exit(1, "flag accessed but not defined")
             /\ UNCHANGED params
        ELSE /\ params' =
                  [issueKey |-> IF Len(args) >= 1
                                THEN GetJiraIssueKey(project, args[1])
                                ELSE NoKey,
                   commentId |-> IF Len(args) >= 2 THEN args[2] ELSE "",
                   body |-> IF Len(args) >= 3 THEN args[3] ELSE "",
                   template |-> flags.template,
                   noInput |-> flags.noInput,
                   internal |-> flags.internal]
             /\ pc' = "detect"
             /\ UNCHANGED <<exitCode, errors>>
    /\ UNCHANGED <<env, defaultBody, originalComment, log, editorDefaults,
                   updates, printed, nextAction, rejects>>

\* the detector running the guard without forcing noInput
detectMode_GuardOnly ==
    /\ pc = "detect"
    /\ log' = Append(log, "StdinHasData")
    /\ IF isNonInteractive /\ isMandatoryParamsMissing
       THEN Exit(1, MsgMandatory)
       ELSE /\ pc' = "setIssueKey"
            /\ UNCHANGED <<exitCode, errors>>
    /\ UNCHANGED <<env, params, defaultBody, originalComment, editorDefaults,
                   updates, printed, nextAction, rejects>>

\* lines 76-82: the mode detector forces noInput, then the guard on the
\* mandatory fields
detectMode ==
    /\ pc = "detect"
    /\ log' = Append(log, "StdinHasData")
    /\ IF isNonInteractive
       THEN /\ params' = [params EXCEPT !.noInput = TRUE]
            /\ IF isMandatoryParamsMissing
               THEN Exit(1, MsgMandatory)
               ELSE /\ pc' = "setIssueKey"
                    /\ UNCHANGED <<exitCode, errors>>
       ELSE /\ pc' = "setIssueKey"
            /\ UNCHANGED <<params, exitCode, errors>>
    /\ UNCHANGED <<env, defaultBody, originalComment, editorDefaults, updates,
                   printed, nextAction, rejects>>

\* the issue key asked for even when it was given
setIssueKey_AlwaysAsk ==
    /\ pc = "setIssueKey"
    /\ log' = Append(log, "Ask:issueKey")
    /\ \/ \E ans \in KeyAnswers :
             /\ params' = [params EXCEPT
                             !.issueKey = GetJiraIssueKey(project, ans)]
             /\ pc' = "setCommentId"
             /\ UNCHANGED <<rejects, exitCode, errors>>
       \/ /\ rejects < MaxRejects
          /\ rejects' = rejects + 1
          /\ UNCHANGED <<params, pc, exitCode, errors>>
       \/ /\ Exit(1, "prompt error")
          /\ UNCHANGED <<params, rejects>>
    /\ UNCHANGED <<env, defaultBody, originalComment, editorDefaults, updates,
                   printed, nextAction>>

\* setIssueKey, lines 172-190, called at line 84
setIssueKey ==
    /\ pc = "setIssueKey"
    /\ \/ /\ params.issueKey # NoKey
          /\ pc' = "setCommentId"
          /\ UNCHANGED <<params, log, rejects, exitCode, errors>>
       \/ /\ params.issueKey = NoKey
          /\ log' = Append(log, "Ask:issueKey")
          /\ \/ \E ans \in KeyAnswers :
                   /\ params' = [params EXCEPT
                                   !.issueKey = GetJiraIssueKey(project, ans)]
                   /\ pc' = "setCommentId"
                   /\ UNCHANGED <<rejects, exitCode, errors>>
             \/ \* survey.Required sends a blank answer back to the prompt
                /\ rejects < MaxRejects
                /\ rejects' = rejects + 1
                /\ UNCHANGED <<params, pc, exitCode, errors>>
             \/ \* survey.Ask returns an error (interrupt, no terminal)
                /\ Exit(1, "prompt error")
                /\ UNCHANGED <<params, rejects>>
    /\ UNCHANGED <<env, defaultBody, originalComment, editorDefaults, updates,
                   printed, nextAction>>

\* the comment-id input left out when noInput is set
setCommentId_SkipWhenNoInput ==
    /\ pc = "setCommentId"
    /\ \/ /\ (params.commentId # "" \/ params.noInput)
          /\ pc' = "setBody"
          /\ UNCHANGED <<params, log, rejects, exitCode, errors>>
       \/ /\ params.commentId = ""
          /\ ~params.noInput
          /\ log' = Append(log, "Ask:commentId")
          /\ \/ \E ans \in CommentIdAnswers :
                   /\ params' = [params EXCEPT !.commentId = ans]
                   /\ pc' = "setBody"
                   /\ UNCHANGED <<rejects, exitCode, errors>>
             \/ /\ rejects < MaxRejects
                /\ rejects' = rejects + 1
                /\ UNCHANGED <<params, pc, exitCode, errors>>
             \/ /\ Exit(1, "prompt error")
                /\ UNCHANGED <<params, rejects>>
    /\ UNCHANGED <<env, defaultBody, originalComment, editorDefaults, updates,
                   printed, nextAction>>

\* setCommentId, lines 192-210, called at line 86
setCommentId ==
    /\ pc = "setCommentId"
    /\ \/ /\ params.commentId # ""
          /\ pc' = "setBody"
          /\ UNCHANGED <<params, log, rejects, exitCode, errors>>
       \/ /\ params.commentId = ""
          /\ log' = Append(log, "Ask:commentId")
          /\ \/ \E ans \in CommentIdAnswers :
                   /\ params' = [params EXCEPT !.commentId = ans]
                   /\ pc' = "setBody"
                   /\ UNCHANGED <<rejects, exitCode, errors>>
             \/ /\ rejects < MaxRejects
                /\ rejects' = rejects + 1
                /\ UNCHANGED <<params, pc, exitCode, errors>>
             \/ /\ Exit(1, "prompt error")
                /\ UNCHANGED <<params, rejects>>
    /\ UNCHANGED <<env, defaultBody, originalComment, editorDefaults, updates,
                   printed, nextAction>>

\* the source test without the template path
hasBodySource_StdinOnly == StdinHasData

\* line 222: a template path was given or standard input has data
hasBodySource == params.template # "" \/ StdinHasData

\* what lines 222-228 add to the log: the probe is skipped when the template
\* path decides the condition, the read happens when the condition holds
readEvents ==
    (IF params.template = "" THEN <<"StdinHasData">> ELSE <<>>)
    \o (IF hasBodySource THEN <<"ReadFile">> ELSE <<>>)
    \o (IF hasBodySource /\ ReadsStdin(params.template)
        THEN <<"ReadStdin">> ELSE <<>>)

\* the template flag tried before the positional body
bodyGiven_TemplateFirst == params.body # "" /\ params.template = ""

\* line 213: the positional body ends the resolution
bodyGiven == params.body # ""

\* the short-circuit taken only when a source was read
skipsEditor_NeedsSource == params.noInput /\ hasBodySource

\* line 230: without input the default text is the body
skipsEditor == params.noInput

\* the existing comment fetched whatever the template flag is
needsFetch_Always == TRUE

\* line 235: the existing comment is fetched when no template path was given
needsFetch == params.template = ""

\* setBody, lines 212-233, called at line 88: the literal body, the
\* template or standard input, the non-interactive short-circuit
setBody ==
    /\ pc = "setBody"
    /\ IF bodyGiven
       THEN /\ pc' = "confirm"
            /\ UNCHANGED <<params, defaultBody, log, exitCode, errors>>
       ELSE /\ log' = log \o readEvents
            /\ IF hasBodySource /\ ~ReadFile(params.template).ok
               THEN /\ Exit(1, "Error: read failed")
                    /\ UNCHANGED <<params, defaultBody>>
               ELSE /\ defaultBody' = IF hasBodySource
                                      THEN ReadFile(params.template).data
                                      ELSE ""
                    /\ IF skipsEditor
                       THEN /\ params' = [params EXCEPT !.body = defaultBody']
                            /\ pc' = "confirm"
                       ELSE /\ pc' = IF needsFetch THEN "fetch" ELSE "editor"
                            /\ UNCHANGED params
                    /\ UNCHANGED <<exitCode, errors>>
    /\ UNCHANGED <<env, originalComment, editorDefaults, updates, printed,
                   nextAction, rejects>>

\* the string body used as it is stored
commentMarkdown_RawString(c) ==
    IF c.kind = "adf" THEN Translate(c.doc) ELSE Join(c.text)

\* lines 241-246: the fetched body as markdown
commentMarkdown(c) ==
    IF c.kind = "adf" THEN Translate(c.doc) ELSE FromJiraMD(c.text)

\* the fetch error reported and the editor shown all the same
fetchComment_ErrorSwallowed ==
    /\ pc = "fetch"
    /\ log' = Append(log, "GetIssueComment")
    /\ \/ \E c \in Comments :
             /\ originalComment' = c
             /\ defaultBody' = commentMarkdown(c)
             /\ pc' = "editor"
             /\ UNCHANGED <<exitCode, errors>>
       \/ /\ errors' = Append(errors, "fetch failed")
          /\ pc' = "editor"
          /\ UNCHANGED <<originalComment, defaultBody, exitCode>>
    /\ UNCHANGED <<env, params, editorDefaults, updates, printed, nextAction,
                   rejects>>

\* setBody, lines 235-248: the existing comment becomes the default text
fetchComment ==
    /\ pc = "fetch"
    /\ log' = Append(log, "GetIssueComment")
    /\ \/ \E c \in Comments :
             /\ originalComment' = c
             /\ defaultBody' = commentMarkdown(c)
             /\ pc' = "editor"
             /\ UNCHANGED <<exitCode, errors>>
       \/ /\ Exit(1, "fetch failed")
          /\ UNCHANGED <<originalComment, defaultBody>>
    /\ UNCHANGED <<env, params, editorDefaults, updates, printed, nextAction,
                   rejects>>

\* the editor taking a blank text (BlankAllowed: true)
EditorAnswers_BlankAllowed(default) == {default, EditedText, ""}

\* what the user can save in the editor: the default as shown, or a new text
EditorAnswers(default) == {default, EditedText} \ {""}

\* setBody, lines 250-271: the editor prompt, which refuses a blank text
editBody ==
    /\ pc = "editor"
    /\ log' = Append(log, "Ask:body")
    /\ editorDefaults' = Append(editorDefaults, defaultBody)
    /\ \/ \E ans \in EditorAnswers(defaultBody) :
             /\ params' = [params EXCEPT !.body = ans]
             /\ pc' = "confirm"
             /\ UNCHANGED <<rejects, exitCode, errors>>
       \/ /\ rejects < MaxRejects
          /\ rejects' = rejects + 1
          /\ UNCHANGED <<params, pc, exitCode, errors>>
       \/ /\ Exit(1, "prompt error")
          /\ UNCHANGED <<params, rejects>>
    /\ UNCHANGED <<env, defaultBody, originalComment, updates, printed,
                   nextAction>>

\* the select asked whatever noInput is
asksNextAction_Always == TRUE

\* the select never asked
asksNextAction_Never == FALSE

\* line 90: the submit/cancel select is asked unless noInput
asksNextAction == ~params.noInput

\* the answer never taken as a cancel
isCancel_Never(answer) == FALSE

\* the answer compared with the wrong option
isCancel_Submit(answer) == answer = ActionSubmit

\* line 95
isCancel(answer) == answer = ActionCancel

\* lines 90-98: the confirmation select (getNextAction, lines 274-286)
confirm ==
    /\ pc = "confirm"
    /\ IF asksNextAction
       THEN /\ log' = Append(log, "Ask:action")
            /\ \/ \E answer \in {ActionSubmit, ActionCancel} :
                     /\ nextAction' = answer
                     /\ IF isCancel(answer)
                        THEN Exit(1, MsgAborted)
                        ELSE /\ pc' = "commit"
                             /\ UNCHANGED <<exitCode, errors>>
               \/ /\ Exit(1, "prompt error")
                  /\ UNCHANGED nextAction
       ELSE /\ pc' = "commit"
            /\ UNCHANGED <<log, nextAction, exitCode, errors>>
    /\ UNCHANGED <<env, params, defaultBody, originalComment, editorDefaults,
                   updates, printed, rejects>>

\* the update error reported and the run going on to the success message
commit_ErrorIgnored ==
    /\ pc = "commit"
    /\ log' = Append(log, "UpdateIssueComment")
    /\ updates' = Append(updates, [issueKey |-> params.issueKey,
                                   commentId |-> params.commentId,
                                   body |-> params.body,
                                   internal |-> params.internal])
    /\ \/ /\ pc' = "report"
          /\ UNCHANGED <<exitCode, errors>>
       \/ /\ pc' = "report"
          /\ errors' = Append(errors, "update failed")
          /\ UNCHANGED exitCode
    /\ UNCHANGED <<env, params, defaultBody, originalComment, editorDefaults,
                   printed, nextAction, rejects>>

\* lines 100-106: the remote update
commit ==
    /\ pc = "commit"
    /\ log' = Append(log, "UpdateIssueComment")
    /\ updates' = Append(updates, [issueKey |-> params.issueKey,
                                   commentId |-> params.commentId,
                                   body |-> params.body,
                                   internal |-> params.internal])
    /\ \/ /\ pc' = "report"
          /\ UNCHANGED <<exitCode, errors>>
       \/ Exit(1, "update failed")
    /\ UNCHANGED <<env, params, defaultBody, originalComment, editorDefaults,
                   printed, nextAction, rejects>>

\* lines 108-111: the success message and the deep link
report ==
    /\ pc = "report"
    /\ printed' = printed \o
                    << <<"Success", params.commentId, params.issueKey>>,
                       <<"Link", params.issueKey, params.commentId>> >>
    /\ pc' = "web"
    /\ UNCHANGED <<env, params, defaultBody, originalComment, log,
                   editorDefaults, updates, errors, nextAction, rejects,
                   exitCode>>

\* the browser opened whatever --web is
opensBrowser_Always == TRUE

\* line 113
opensBrowser == flags.web

\* the handler returning normally after a failed navigation
navigate_ErrorIgnored ==
    /\ pc = "web"
    /\ IF opensBrowser
       THEN /\ log' = Append(log, "Navigate")
            /\ \/ Exit(0, "")
               \/ Exit(0, "navigate failed")
       ELSE /\ Exit(0, "")
            /\ UNCHANGED log
    /\ UNCHANGED <<env, params, defaultBody, originalComment, editorDefaults,
                   updates, printed, nextAction, rejects>>

\* lines 113-117: the browser, if --web, and the return of the handler
navigate ==
    /\ pc = "web"
    /\ IF opensBrowser
       THEN /\ log' = Append(log, "Navigate")
            /\ \/ Exit(0, "")
               \/ Exit(1, "navigate failed")
       ELSE /\ Exit(0, "")
            /\ UNCHANGED log
    /\ UNCHANGED <<env, params, defaultBody, originalComment, editorDefaults,
                   updates, printed, nextAction, rejects>>

Next ==
    \/ parseArgsAndFlags
    \/ detectMode
    \/ setIssueKey
    \/ setCommentId
    \/ setBody
    \/ fetchComment
    \/ editBody
    \/ confirm
    \/ commit
    \/ report
    \/ navigate

Spec == Init /\ [][Next]_vars

\* every block of the handler returns: the prompts are answered, the remote
\* and file calls come back
FairSpec == Spec /\ WF_vars(Next)

----------------------------------------------------------------------------
(* Vocabulary of the properties *)

Called(e) == \E i \in 1..Len(log) : log[i] = e
Count(e) == Cardinality({i \in 1..Len(log) : log[i] = e})

PromptEvents == {"Ask:issueKey", "Ask:commentId", "Ask:body", "Ask:action"}
NoPromptAtAll == \A i \in 1..Len(log) : log[i] \notin PromptEvents

\* the positional arguments as typed
argIssueKey == IF Len(args) >= 1 THEN args[1] ELSE NoKey
argCommentId == IF Len(args) >= 2 THEN args[2] ELSE ""
literalBody == IF Len(args) >= 3 THEN args[3] ELSE ""

argMissing == argIssueKey = NoKey \/ argCommentId = ""
AllSupplied == argIssueKey # NoKey /\ argCommentId # "" /\ literalBody # ""

\* what the mode detector looks at, as given to the invocation
detectorInput == stdinPiped \/ flags.template = "-"

\* the flags were read and the mode detector has run
detected == pc \notin {"parse", "detect"} /\ log # <<>>

NoRemoteCall ==
    /\ updates = <<>>
    /\ ~Called("GetIssueComment")
    /\ ~Called("UpdateIssueComment")

\* the content of the source the template flag and standard input address
sourceContent ==
    IF flags.template = "-" \/ (flags.template = "" /\ stdinPiped)
    THEN stdinContent
    ELSE IF flags.template = "" THEN "" ELSE file.data

----------------------------------------------------------------------------
(* C1: a non-empty third positional argument is the body of every update   *)
(* call, whatever the template flag, standard input and the remote comment *)
(* are; on that path setBody reads no template and no standard input,      *)
(* fetches no comment and shows no editor.                                 *)
C1_LiteralBodyWins ==
    literalBody # "" =>
        /\ \A i \in 1..Len(updates) : updates[i].body = literalBody
        /\ params.body \in {"", literalBody}
        /\ pc \notin {"parse", "detect", "setIssueKey", "setCommentId",
                      "setBody"} /\ log # <<>> => params.body = literalBody
        /\ ~Called("ReadFile")
        /\ ~Called("ReadStdin")
        /\ ~Called("GetIssueComment")
        /\ ~Called("Ask:body")
        /\ Count("StdinHasData") <= 1
        /\ defaultBody = ""
        /\ editorDefaults = <<>>

C1_Witness ==
    /\ literalBody = "fixed typo"
    /\ flags.template = "/t.tmpl"
    /\ file = [ok |-> TRUE, data |-> "from file"]
    /\ Len(updates) = 1
    /\ updates[1].body = "fixed typo"

(* C2 as stated: in every invocation with noInput true, by the flag or by  *)
(* the mode detector, and an empty issue key or comment id, the command    *)
(* has ended with the missing-field error and no remote call.              *)
C2_GuardWheneverNoInput ==
    (detected /\ (flags.noInput \/ detectorInput) /\ argMissing) =>
        /\ pc = "exit"
        /\ exitCode = 1
        /\ errors = <<MsgMandatory>>
        /\ NoRemoteCall

(* C2, amended: when the mode detector is true (piped standard input or    *)
(* template "-") and the issue key or the comment id is empty, the command *)
(* ends with the missing-field error, no prompt and no remote call; the    *)
(* missing-field error is printed in no other case, so --no-input alone    *)
(* does not raise it.                                                      *)
C2_GuardWhenDetected ==
    /\ (detected /\ detectorInput /\ argMissing) =>
           /\ pc = "exit"
           /\ exitCode = 1
           /\ errors = <<MsgMandatory>>
           /\ NoRemoteCall
           /\ NoPromptAtAll
    /\ (\E i \in 1..Len(errors) : errors[i] = MsgMandatory) =>
           detectorInput /\ argMissing

C2_Witness ==
    /\ ~flags.noInput
    /\ flags.template = "-"
    /\ argIssueKey # NoKey
    /\ argCommentId = ""
    /\ pc = "exit"
    /\ errors = <<MsgMandatory>>

(* C3: when the confirmation select is answered "cancel", no update call   *)
(* is made, nothing is printed as done, and the process has ended on the   *)
(* "Action aborted" failure.                                               *)
C3_CancelAborts ==
    nextAction = ActionCancel =>
        /\ pc = "exit"
        /\ exitCode = 1
        /\ errors = <<MsgAborted>>
        /\ updates = <<>>
        /\ ~Called("UpdateIssueComment")
        /\ printed = <<>>

C3_Witness ==
    /\ nextAction = ActionCancel
    /\ Called("Ask:action")
    /\ params.body # ""

(* C4 as stated: with issue key, comment id and a non-empty body all given *)
(* positionally, no piped standard input and no --no-input, no prompt of   *)
(* any kind is issued.                                                     *)
C4_NoPromptOfAnyKind ==
    (AllSupplied /\ ~stdinPiped /\ ~flags.noInput) => NoPromptAtAll

(* C4, amended: with issue key, comment id and a non-empty body all given  *)
(* positionally, every update call carries (expanded issue key, comment    *)
(* id, that body, --internal), and the issue-key input, the comment-id     *)
(* input and the editor are never shown; the submit/cancel select is       *)
(* skipped only with noInput (the flag, piped standard input or template   *)
(* "-"), otherwise it is asked once before the update and the update is    *)
(* called only on "submit".                                                *)
C4_PositionalRun ==
    AllSupplied =>
        /\ ~Called("Ask:issueKey")
        /\ ~Called("Ask:commentId")
        /\ ~Called("Ask:body")
        /\ \A i \in 1..Len(updates) :
               updates[i] = [issueKey |-> GetJiraIssueKey(project, args[1]),
                             commentId |-> args[2],
                             body |-> args[3],
                             internal |-> flags.internal]
        /\ (flags.noInput \/ detectorInput) => ~Called("Ask:action")
        /\ (~flags.noInput /\ ~detectorInput /\ updates # <<>>) =>
               /\ Count("Ask:action") = 1
               /\ nextAction = ActionSubmit
        /\ (pc = "exit" /\ exitCode = 0) => Len(updates) = 1

C4_Witness ==
    /\ args = << <<"1", "2">>, "1001", "fixed typo" >>
    /\ project = <<"P">>
    /\ flags.internal
    /\ ~flags.noInput
    /\ ~detectorInput
    /\ log = <<"StdinHasData", "Ask:action", "UpdateIssueComment">>
    /\ updates = <<[issueKey |-> <<"P", "-", "1", "2">>, commentId |-> "1001",
                    body |-> "fixed typo", internal |-> TRUE]>>
    /\ pc = "exit"
    /\ exitCode = 0

(* C5 as stated: with the --no-input flag no prompt is ever issued.        *)
C5_NoInputNoPrompt == flags.noInput => NoPromptAtAll

(* C5, amended: with the --no-input flag the body editor and the           *)
(* submit/cancel select are never shown, and the body of every update call *)
(* is the literal argument, else the template/standard-input content, else *)
(* empty; the issue-key and comment-id inputs are still shown, exactly for *)
(* a field given empty when the mode detector is false.                    *)
C5_NoInputFlag ==
    flags.noInput =>
        /\ ~Called("Ask:body")
        /\ ~Called("Ask:action")
        /\ Called("Ask:issueKey") => (argIssueKey = NoKey /\ ~detectorInput)
        /\ Called("Ask:commentId") => (argCommentId = "" /\ ~detectorInput)
        /\ (updates # <<>> /\ argIssueKey = NoKey) => Called("Ask:issueKey")
        /\ (updates # <<>> /\ argCommentId = "") => Called("Ask:commentId")
        /\ \A i \in 1..Len(updates) :
               updates[i].body = IF literalBody # "" THEN literalBody
                                 ELSE sourceContent

C5_Witness ==
    /\ flags.noInput
    /\ args = <<>>
    /\ log = <<"StdinHasData", "Ask:issueKey", "Ask:commentId",
               "StdinHasData", "UpdateIssueComment">>
    /\ Len(updates) = 1
    /\ updates[1].body = ""

(* C6: with noInput true (by the flag or by the mode detector), no literal *)
(* body and a readable template source, the body of every update call is   *)
(* exactly the content read from that source, the editor is not shown, and *)
(* GetIssueComment is never called.                                        *)
C6_TemplateVerbatim ==
    ((flags.noInput \/ detectorInput) /\ literalBody = ""
     /\ flags.template # "" /\ (flags.template # "-" => file.ok)) =>
        /\ \A i \in 1..Len(updates) : updates[i].body = sourceContent
        /\ pc \in {"confirm", "commit", "report", "web"} =>
               /\ params.body = sourceContent
               /\ Count("ReadFile") = 1
        /\ ~Called("GetIssueComment")
        /\ ~Called("Ask:body")

C6_Witness ==
    /\ flags.noInput
    /\ literalBody = ""
    /\ flags.template = "/t.tmpl"
    /\ file = [ok |-> TRUE, data |-> "from file"]
    /\ Len(updates) = 1
    /\ updates[1].body = "from file"

(* C7: with template "-" or piped standard input and an empty issue key or *)
(* comment id, noInput is forced, the guard ends the run with the          *)
(* missing-field error, and the only thing done to standard input is the   *)
(* detector's probe: ReadFile is never called, nothing is drained.         *)
C7_GuardBeforeRead ==
    (detected /\ detectorInput /\ argMissing) =>
        /\ params.noInput
        /\ pc = "exit"
        /\ errors = <<MsgMandatory>>
        /\ log = <<"StdinHasData">>
        /\ ~Called("ReadFile")
        /\ ~Called("ReadStdin")
        /\ defaultBody = ""

C7_Witness ==
    /\ flags.template = "-"
    /\ stdinPiped
    /\ stdinContent = "from pipe"
    /\ args = <<>>
    /\ ~flags.noInput
    /\ params.noInput
    /\ pc = "exit"
    /\ log = <<"StdinHasData">>

(* C8: with noInput true, no literal body, no template path and no piped   *)
(* input, setBody leaves the body empty without reading, fetching or       *)
(* prompting, and the update is then called with the empty body: nothing   *)
(* but a flag error or an error of the issue-key/comment-id input ends the *)
(* run before it.                                                          *)
C8_EmptyDefault ==
    (flags.noInput /\ literalBody = "" /\ flags.template = ""
     /\ ~stdinPiped) =>
        /\ params.body = ""
        /\ defaultBody = ""
        /\ ~Called("ReadFile")
        /\ ~Called("ReadStdin")
        /\ ~Called("GetIssueComment")
        /\ ~Called("Ask:body")
        /\ ~Called("Ask:action")
        /\ \A i \in 1..Len(updates) : updates[i].body = ""
        /\ pc \in {"report", "web"} => Len(updates) = 1
        /\ (pc = "exit" /\ updates = <<>>) =>
               errors \in {<<"flag accessed but not defined">>,
                           <<"prompt error">>}

C8_Witness ==
    /\ flags.noInput
    /\ flags.template = ""
    /\ ~stdinPiped
    /\ Len(args) = 2
    /\ argIssueKey # NoKey
    /\ argCommentId # ""
    /\ log = <<"StdinHasData", "StdinHasData", "UpdateIssueComment">>
    /\ updates[1].body = ""
    /\ pc = "exit"
    /\ exitCode = 0

(* C9: the browser is opened only with --web and only after the single     *)
(* update call succeeded and the success message and the deep link were    *)
(* printed; a failed navigation ends the process with a failure, with the  *)
(* update already made.                                                    *)
C9_NavigateAfterUpdate ==
    /\ Called("Navigate") =>
           /\ flags.web
           /\ Len(updates) = 1
           /\ printed = << <<"Success", updates[1].commentId,
                             updates[1].issueKey>>,
                           <<"Link", updates[1].issueKey,
                             updates[1].commentId>> >>
           /\ Len(log) >= 2
           /\ log[Len(log)] = "Navigate"
           /\ log[Len(log) - 1] = "UpdateIssueComment"
           /\ Count("Navigate") = 1
    /\ (\E i \in 1..Len(errors) : errors[i] = "navigate failed") =>
           /\ pc = "exit"
           /\ exitCode = 1
           /\ Called("Navigate")
           /\ Len(updates) = 1

C9_Witness ==
    /\ errors = <<"navigate failed">>
    /\ exitCode = 1
    /\ Len(updates) = 1
    /\ Len(printed) = 2

\* the exit status of a finished run
C10_ExitStatus ==
    /\ pc = "exit" <=> exitCode # -1
    /\ errors # <<>> => (pc = "exit" /\ exitCode = 1)
    /\ (pc = "exit" /\ exitCode # 0) => (exitCode = 1 /\ Len(errors) = 1)
    /\ (pc = "exit" /\ exitCode = 0) =>
           /\ errors = <<>>
           /\ Len(updates) = 1
           /\ Len(printed) = 2
           /\ nextAction # ActionCancel
           /\ flags.web => log[Len(log)] = "Navigate"

(* C10: every invocation terminates when each blocking step returns, with  *)
(* status zero only after the update succeeded and the confirmation line   *)
(* and the deep link were printed (and the navigation, if asked for,       *)
(* succeeded), and with a non-zero status after every flag error, guard    *)
(* failure, read failure, fetch failure, update failure, prompt error or   *)
(* cancel.                                                                 *)
C10_Terminates == <>(pc = "exit") /\ []C10_ExitStatus

C10_Witness ==
    /\ pc = "exit"
    /\ exitCode = 0
    /\ flags.web
    /\ Called("GetIssueComment")
    /\ Called("Ask:body")
    /\ nextAction = ActionSubmit

(* C11: whenever UpdateIssueComment is called, issueKey and commentId are  *)
(* both non-empty: a field given empty was asked for (the required inputs  *)
(* take no blank answer), and with the mode detector true the guard has    *)
(* let the run pass only with both fields given.                           *)
C11_FieldsSetAtCommit ==
    /\ \A i \in 1..Len(updates) :
           /\ updates[i].issueKey # NoKey
           /\ updates[i].commentId # ""
    /\ pc \in {"commit", "report", "web"} =>
           (params.issueKey # NoKey /\ params.commentId # "")
    /\ (updates # <<>> /\ detectorInput) => ~argMissing
    /\ (updates # <<>> /\ argIssueKey = NoKey) =>
           (~detectorInput /\ Called("Ask:issueKey"))
    /\ (updates # <<>> /\ argCommentId = "") =>
           (~detectorInput /\ Called("Ask:commentId"))

C11_Witness ==
    /\ args = <<NoKey, "">>
    /\ ~detectorInput
    /\ rejects = 1
    /\ Len(updates) = 1
    /\ updates[1].issueKey = <<"7">>
    /\ updates[1].commentId = "2002"

(* C12: an update call carries an empty body only through the              *)
(* non-interactive short-circuit: noInput true, no literal body, and the   *)
(* template/standard-input content empty or absent.  With noInput false    *)
(* the body of every update call is non-empty, the editor taking no blank  *)
(* text.                                                                   *)
C12_EmptyBodyOnlyNonInteractive ==
    /\ \A i \in 1..Len(updates) :
           updates[i].body = "" =>
               /\ params.noInput
               /\ flags.noInput \/ detectorInput
               /\ literalBody = ""
               /\ sourceContent = ""
               /\ ~Called("Ask:body")
    /\ (~params.noInput /\ pc \in {"confirm", "commit", "report", "web"}) =>
           params.body # ""
    /\ (~params.noInput /\ literalBody = "" /\ updates # <<>>) =>
           (Called("Ask:body") /\ updates[1].body # "")

C12_Witness ==
    /\ ~flags.noInput
    /\ ~detectorInput
    /\ literalBody = ""
    /\ flags.template = "/t.tmpl"
    /\ file = [ok |-> TRUE, data |-> ""]
    /\ editorDefaults = <<"", "">>
    /\ rejects = 1
    /\ Len(updates) = 1
    /\ updates[1].body = EditedText

(* C13: GetIssueComment is called only with an empty literal body, noInput *)
(* false and no template/standard-input source (no template path, no data  *)
(* on standard input when setBody probes it), so never in non-interactive  *)
(* mode and never after a template or piped content was read; and at most  *)
(* once per run.                                                           *)
C13_FetchGating ==
    /\ Count("GetIssueComment") <= 1
    /\ Called("GetIssueComment") =>
           /\ literalBody = ""
           /\ ~params.noInput
           /\ ~flags.noInput
           /\ ~detectorInput
           /\ flags.template = ""
           /\ ~stdinPiped
           /\ ~Called("ReadFile")
           /\ ~Called("ReadStdin")
           /\ Count("StdinHasData") = 2
    /\ originalComment # NoComment => Called("GetIssueComment")

C13_Witness ==
    /\ log = <<"StdinHasData", "StdinHasData", "GetIssueComment">>
    /\ originalComment.kind = "string"
    /\ pc = "editor"

\* the markdown expected for the comments the remote returns
expectedMarkdown(c) ==
    CASE c = [kind |-> "adf", doc |-> <<"Hel", "lo">>, text |-> <<>>]
            -> "Hello"
      [] c = [kind |-> "string", doc |-> <<>>, text |-> <<"h1.", "Hello">>]
            -> "# Hello"
      [] OTHER -> "?"

(* C14: every display of the body editor shows, as its default, the        *)
(* content of the template file when a template path was given, and        *)
(* otherwise the markdown of the comment GetIssueComment returned (the ADF *)
(* translation of a structured body, the Jira-markup conversion of a       *)
(* string body).  The editor is shown only after that read or fetch        *)
(* succeeded, and a run that read a template or standard input never       *)
(* fetches.                                                                *)
C14_EditorDefault ==
    /\ Count("Ask:body") = Len(editorDefaults)
    /\ \A i \in 1..Len(editorDefaults) :
           IF flags.template # ""
           THEN /\ file.ok
                /\ editorDefaults[i] = file.data
                /\ originalComment = NoComment
           ELSE /\ originalComment \in Comments
                /\ editorDefaults[i] = expectedMarkdown(originalComment)
    /\ \A i \in 1..Len(log) :
           log[i] = "Ask:body" =>
               \E j \in 1..(i - 1) :
                   log[j] = IF flags.template # "" THEN "ReadFile"
                            ELSE "GetIssueComment"
    /\ editorDefaults # <<>> =>
           \A i \in 1..Len(errors) :
               errors[i] \notin {"Error: read failed", "fetch failed"}
    /\ ~(Called("ReadFile") /\ Called("GetIssueComment"))
    /\ pc = "editor" => defaultBody =
           (IF flags.template # "" THEN file.data
            ELSE expectedMarkdown(originalComment))

C14_Witness ==
    /\ flags.template = ""
    /\ originalComment.kind = "string"
    /\ editorDefaults = <<"# Hello">>
    /\ Len(updates) = 1
    /\ updates[1].body = "# Hello"

\* the place of the first e in the log, 0 when there is none
FirstAt(e) ==
    IF Called(e) THEN CHOOSE i \in 1..Len(log) :
                          log[i] = e /\ \A j \in 1..(i - 1) : log[j] # e
    ELSE 0

(* C15: with noInput false, UpdateIssueComment is called only after the    *)
(* submit/cancel select was asked exactly once, after the body resolution  *)
(* and right before the call, and answered "submit"; any other answer ends *)
(* the run on the abort path with no update.  With noInput true the select *)
(* is never asked.                                                         *)
C15_ConfirmationGate ==
    /\ Count("Ask:action") <= 1
    /\ (flags.noInput \/ detectorInput) =>
           (~Called("Ask:action") /\ nextAction = "")
    /\ (~flags.noInput /\ ~detectorInput /\ updates # <<>>) =>
           /\ Count("Ask:action") = 1
           /\ nextAction = ActionSubmit
           /\ FirstAt("UpdateIssueComment") = FirstAt("Ask:action") + 1
           /\ params.body # ""
    /\ Called("Ask:action") =>
           /\ \A i \in 1..Len(log) :
                  log[i] \in {"ReadFile", "GetIssueComment", "Ask:body",
                              "Ask:issueKey", "Ask:commentId"}
                      => i < FirstAt("Ask:action")
           /\ params.body # ""
    /\ nextAction \notin {"", ActionSubmit} =>
           /\ pc = "exit"
           /\ errors = <<MsgAborted>>
           /\ updates = <<>>
           /\ ~Called("UpdateIssueComment")

C15_Witness ==
    /\ ~flags.noInput
    /\ ~detectorInput
    /\ literalBody = ""
    /\ log = <<"StdinHasData", "ReadFile", "Ask:body", "Ask:action",
               "UpdateIssueComment">>
    /\ nextAction = ActionSubmit
    /\ Len(updates) = 1

(* C16: when the mode detector is true (standard input has data or the     *)
(* template is "-") and the guard passes, noInput is true from then on and *)
(* no prompt of any kind is issued: the update is called with the issue    *)
(* key and comment id as given, and the literal body or else the content   *)
(* of the template/standard-input source verbatim; only a failed read      *)
(* ends the run before the update call.                                    *)
C16_DetectorForcesNoInput ==
    (detected /\ detectorInput /\ ~argMissing) =>
        /\ params.noInput
        /\ NoPromptAtAll
        /\ rejects = 0
        /\ nextAction = ""
        /\ ~Called("GetIssueComment")
        /\ params.issueKey = GetJiraIssueKey(project, args[1])
        /\ params.commentId = args[2]
        /\ \A i \in 1..Len(updates) :
               updates[i] =
                   [issueKey |-> GetJiraIssueKey(project, args[1]),
                    commentId |-> args[2],
                    body |-> IF literalBody # "" THEN literalBody
                             ELSE sourceContent,
                    internal |-> flags.internal]
        /\ pc \in {"report", "web"} => Len(updates) = 1
        /\ (pc = "exit" /\ updates = <<>>) =>
               /\ errors = <<"Error: read failed">>
               /\ literalBody = ""

C16_Witness ==
    /\ ~flags.noInput
    /\ stdinPiped
    /\ flags.template = ""
    /\ stdinContent = "from pipe"
    /\ Len(args) = 2
    /\ log = <<"StdinHasData", "StdinHasData", "ReadFile", "ReadStdin",
               "UpdateIssueComment">>
    /\ Len(updates) = 1
    /\ updates[1].body = "from pipe"

\* the failures that can happen before the update call
PreCommitFailures == {"flag accessed but not defined", "Error: read failed",
                      "fetch failed", "prompt error"}

\* after such a failure the run is over, with nothing updated or reported
C17_Stopped ==
    (\E i \in 1..Len(errors) : errors[i] \in PreCommitFailures) =>
        /\ pc = "exit"
        /\ exitCode = 1
        /\ Len(errors) = 1
        /\ updates = <<>>
        /\ ~Called("UpdateIssueComment")
        /\ printed = <<>>

(* C17: after a flag-retrieval error, a template/standard-input read       *)
(* failure, a GetIssueComment failure or an error of any prompt, the run   *)
(* is over at that point: no later prompt or call is made, the update is   *)
(* never called and no success message is printed.                         *)
C17_NoFailureSwallowed ==
    /\ []C17_Stopped
    /\ [][errors # <<>> => UNCHANGED <<log, updates, printed, pc>>]_vars

C17_Witness ==
    /\ errors = <<"fetch failed">>
    /\ log = <<"StdinHasData", "Ask:issueKey", "Ask:commentId",
               "StdinHasData", "GetIssueComment">>
    /\ pc = "exit"

UpdateFailed == \E i \in 1..Len(errors) : errors[i] = "update failed"

(* C18: UpdateIssueComment is called at most once per invocation.  When it *)
(* returns an error the run ends with that error: no second call, no       *)
(* success message, no deep link, no browser.  The success message is      *)
(* printed only in runs whose single update call succeeded.                *)
C18_SingleUpdate ==
    /\ Len(updates) <= 1
    /\ Count("UpdateIssueComment") = Len(updates)
    /\ UpdateFailed =>
           /\ pc = "exit"
           /\ exitCode = 1
           /\ errors = <<"update failed">>
           /\ Len(updates) = 1
           /\ printed = <<>>
           /\ ~Called("Navigate")
    /\ printed # <<>> =>
           /\ Len(updates) = 1
           /\ ~UpdateFailed
           /\ printed = << <<"Success", updates[1].commentId,
                             updates[1].issueKey>>,
                           <<"Link", updates[1].issueKey,
                             updates[1].commentId>> >>
    /\ pc = "report" => (Len(updates) = 1 /\ errors = <<>>)

C18_Witness ==
    /\ UpdateFailed
    /\ flags.web
    /\ Len(updates) = 1
    /\ log[Len(log)] = "UpdateIssueComment"
    /\ pc = "exit"

\* what a step after the parsing may do to the request
C19_Frame ==
    pc # "parse" =>
        /\ params.issueKey # NoKey => params'.issueKey = params.issueKey
        /\ params.commentId # "" => params'.commentId = params.commentId
        /\ params.body # "" => params'.body = params.body
        /\ params'.template = params.template
        /\ params'.internal = params.internal
        /\ params.noInput => params'.noInput
        /\ params'.noInput # params.noInput => pc = "detect"
        /\ UNCHANGED <<args, flags, project>>

\* the update call carries what the caller gave
C19_PassedThrough ==
    /\ \A i \in 1..Len(updates) :
           /\ argIssueKey # NoKey =>
                  updates[i].issueKey = GetJiraIssueKey(project, args[1])
           /\ argCommentId # "" => updates[i].commentId = args[2]
           /\ literalBody # "" => updates[i].body = args[3]
           /\ updates[i].internal = flags.internal
           /\ updates[i] = [issueKey |-> params.issueKey,
                            commentId |-> params.commentId,
                            body |-> params.body,
                            internal |-> params.internal]
    /\ (pc \notin {"parse", "exit"} \/ log # <<>>) =>
           /\ params.template = flags.template
           /\ params.internal = flags.internal
           /\ params.noInput =
                  (flags.noInput \/ (detectorInput /\ pc # "detect"))

(* C19: the resolution steps never change what the caller supplied: a      *)
(* non-empty issueKey, commentId or body stays as it is, template and      *)
(* internal are never modified, and noInput changes only from false to     *)
(* true, in the mode detector.  So the update is called with the           *)
(* positional issue key after the project-key expansion, the positional    *)
(* comment id, and --internal as parsed.                                   *)
C19_CallerValuesKept == []C19_PassedThrough /\ [][C19_Frame]_vars

C19_Witness ==
    /\ args = << <<"1", "2">>, "1001" >>
    /\ project = <<"P">>
    /\ flags.internal
    /\ ~flags.noInput
    /\ flags.template = "/t.tmpl"
    /\ Len(updates) = 1
    /\ updates[1] = [issueKey |-> <<"P", "-", "1", "2">>,
                     commentId |-> "1001", body |-> EditedText,
                     internal |-> TRUE]

====
